---- MODULE Spec2Model ----
(***************************************************************************)
(* Password-reset token lifecycle (AuthService) and the mail queue         *)
(* (MailService producer, MailProcessor consumer) of base-back-nestjs.     *)
(*                                                                         *)
(* Every awaited repository / queue call of a handler is one atomic step;  *)
(* several requests run concurrently and interleave at those awaits.       *)
(* Modelling assumptions: crypto.randomBytes(32) never repeats a value     *)
(* (each issue draws the next unused secret) and SHA-256 is injective on   *)
(* the secrets of the model.                                               *)
(***************************************************************************)
EXTENDS Integers, Sequences, FiniteSets, TLC

\* ---------------------------------------------------------------- bounds
NumIssueCalls == 2
NumConsumeCalls == 2
MaxTicks == 1
MaxTestMails == 2
NumWorkers == 2

IssueCalls == 1..NumIssueCalls
ConsumeCalls == 1..NumConsumeCalls
Workers == 1..NumWorkers

\* ------------------------------------------------------- program constants
TOKEN_EXPIRATION_MINUTES == 15

MAIL_JOB_NAMES == [SEND_EMAIL |-> "send-email"]

\* Mutant: completed jobs are kept.
DEFAULT_MAIL_JOB_OPTIONS_KeepCompleted ==
    [attempts |-> 5,
     backoff |-> [type |-> "exponential", delay |-> 3000],
     removeOnComplete |-> FALSE,
     removeOnFail |-> FALSE]

DEFAULT_MAIL_JOB_OPTIONS ==
    [attempts |-> 5,
     backoff |-> [type |-> "exponential", delay |-> 3000],
     removeOnComplete |-> TRUE,
     removeOnFail |-> FALSE]

\* ------------------------------------------------------------- the world
\* Rows of the users table, and one id that has no row.
Users == {"u1", "u2"}
UserIds == Users \cup {"nobody"}
\* Time advances in minutes, by one minute or by a whole token lifetime.
TickSteps == {1, TOKEN_EXPIRATION_MINUTES}
\* A text is a sequence of parts; a part is a literal <<"text", s>>, the
\* k-th value of the random generator <<"secret", k>>, or a digest.
\* Concatenation of texts is \o.
Str(s) == << <<"text", s>> >>
\* crypto.randomBytes(32).toString('hex'), k-th draw.
RandomToken(k) == << <<"secret", k>> >>
\* The plain tokens a caller may present.
Secrets == {RandomToken(k) : k \in 1..NumIssueCalls}
NoToken == <<>>
\* sub occurs in text
Contains(text, sub) ==
    \E i \in 1..(Len(text) - Len(sub) + 1) :
        SubSeq(text, i, i + Len(sub) - 1) = sub
\* usedAt of a token that was not used.
NULL == -1
\* APP_URL fallback of MailService.
APP_URL == Str("http://localhost:3000")

VARIABLES now, ticks, users, tokens, issue, consume, jobs, nextJobId,
          worker, testMails, apiKey, validation, render, status

vars == <<now, ticks, users, tokens, issue, consume, jobs, nextJobId,
          worker, testMails, apiKey, validation, render, status>>
\* The last validateResetToken call, the loadTemplate call under test and
\* the getQueueStatus call.
callVars == <<validation, render, status>>
authVars == <<users, tokens, issue, consume>>
mailVars == <<worker, testMails, apiKey>>

\* What a request returns to its caller.
Ok == "ok"
NotFoundException == "NotFoundException: User not found"
BadRequestException == "BadRequestException: Invalid or expired reset token"
DbError == "rejected repository call"
QueueError == "rejected mailQueue.add"

\* ------------------------------------------------------- pure functions
\* Mutant: the token is stored as it is.
hashToken_Plain(token) == token

\* AuthService.hashToken: SHA-256 hex digest of the plain token.
hashToken(token) == << <<"sha256", token>> >>

\* bcrypt.hash(newPassword, 10)
bcryptHash(password) == <<"bcrypt", password>>

\* PasswordResetToken.isValid
isValid(t, at) == t.usedAt = NULL /\ at < t.expiresAt

\* Mutant: the where-clause without the expiry condition.
MatchesLookup_NoExpiry(t, tokenHash, at) ==
    /\ t.tokenHash = tokenHash
    /\ t.usedAt = NULL

\* The where-clause of the findOne in resetPassword:
\* { tokenHash, usedAt: IsNull(), expiresAt: MoreThan(new Date()) }
MatchesLookup(t, tokenHash, at) ==
    /\ t.tokenHash = tokenHash
    /\ t.usedAt = NULL
    /\ t.expiresAt > at

\* findOne of that where-clause: the ids of the matching rows (findOne
\* returns one of them, or null when there is none).
FindValidToken(toks, tokenHash, at) ==
    {i \in 1..Len(toks) : MatchesLookup(toks[i], tokenHash, at)}

\* Mutant: validateResetToken does not look at usedAt.
validateResetToken_IgnoresUsed(toks, token, at) ==
    LET tokenHash == hashToken(token)
        resetToken == {i \in 1..Len(toks) :
                          /\ toks[i].tokenHash = tokenHash
                          /\ toks[i].expiresAt > at}
    IN resetToken # {}

\* AuthService.validateResetToken: findOne with its own where-clause
\* { tokenHash, usedAt: IsNull(), expiresAt: MoreThan(new Date()) }, !!row.
validateResetToken(toks, token, at) ==
    LET tokenHash == hashToken(token)
        resetToken == {i \in 1..Len(toks) :
                          /\ toks[i].tokenHash = tokenHash
                          /\ toks[i].usedAt = NULL
                          /\ toks[i].expiresAt > at}
    IN resetToken # {}

\* AuthService.invalidatePreviousTokens: UPDATE ... SET used_at = now
\* WHERE user_id = :userId AND used_at IS NULL [AND id != :excludeTokenId]
NoExclude == 0
\* Mutant: the update query is built and never executed.
invalidatePreviousTokens_NotExecuted(toks, userId, excludeTokenId, at) == toks

invalidatePreviousTokens(toks, userId, excludeTokenId, at) ==
    [i \in 1..Len(toks) |->
        IF /\ toks[i].userId = userId
           /\ toks[i].usedAt = NULL
           /\ (excludeTokenId = NoExclude \/ toks[i].id # excludeTokenId)
        THEN [toks[i] EXCEPT !.usedAt = at]
        ELSE toks[i]]

\* The job MailService.sendPasswordResetEmail hands to enqueueMail.
\* Mutant: the link is built without the token.
ResetLink_Bare(resetToken) == APP_URL \o Str("/reset-password")

ResetLink(resetToken) == APP_URL \o Str("/reset-password?token=") \o resetToken
PasswordResetMail(email, firstName, resetToken) ==
    [to |-> email,
     subject |-> Str("Reinitialisation de votre mot de passe"),
     template |-> "reset-password",
     params |-> << [key |-> "firstName", value |-> firstName],
                   [key |-> "resetLink", value |-> ResetLink(resetToken)],
                   [key |-> "expirationTime", value |-> Str("15 minutes")] >>]

\* Mutant: the job is added under a name the processor does not handle.
NewJob_UnknownName(id, jobData) ==
    [id |-> id,
     name |-> "send-mail",
     data |-> jobData,
     opts |-> DEFAULT_MAIL_JOB_OPTIONS,
     state |-> "waiting",
     attemptsMade |-> 0,
     delay |-> 0,
     failedReason |-> "",
     sends |-> 0,
     stalledCount |-> 0]

\* The record mailQueue.add stores for a job (MailService.enqueueMail).
NewJob(id, jobData) ==
    [id |-> id,
     name |-> MAIL_JOB_NAMES.SEND_EMAIL,
     data |-> jobData,
     opts |-> DEFAULT_MAIL_JOB_OPTIONS,
     state |-> "waiting",
     attemptsMade |-> 0,
     delay |-> 0,
     failedReason |-> "",
     sends |-> 0,
     stalledCount |-> 0]

\* ------------------------------------------------------------------ Init
\* A request that was not made yet.  result is what the caller gets back;
\* after / inflight / why are bookkeeping of the order of the calls and of
\* the row the lookup met, never read by the handlers.
IdleIssue == [pc |-> "idle", userId |-> "nobody", plainToken |-> NoToken,
              tokenId |-> 0, result |-> "pending", after |-> {},
              invalidated |-> {}, jobId |-> 0]
IdleConsume == [pc |-> "idle", token |-> NoToken, newPassword |-> "",
                resetTokenId |-> 0, result |-> "pending", why |-> "",
                after |-> {}, inflight |-> {}]
IdleWorker == [job |-> 0, pc |-> "idle", htmlContent |-> <<>>]
NoValidation == [token |-> NoToken, result |-> FALSE]
\* A getQueueStatus call: the count it waits for next, the counts it has,
\* and (bookkeeping) the jobs there were when it began and how often each
\* job was counted.
NoStatus == [pc |-> "idle", counts |-> <<>>, present |-> {}, counted |-> <<>>]
NoRender == [body |-> <<>>, params |-> <<>>, pc |-> "idle", htmlContent |-> <<>>]
\* BREVO_API_KEY as onModuleInit may read it ('' when not configured).
ApiKeys == {"", "xkeysib"}

InitBase ==
    /\ now = 0
    /\ ticks = 0
    /\ users = [u \in Users |->
                  [email |-> Str(u) \o Str("@example.com"),
                   first_name |-> Str(u),
                   password |-> bcryptHash("pw0")]]
    /\ tokens = <<>>
    /\ issue = [p \in IssueCalls |-> IdleIssue]
    /\ consume = [c \in ConsumeCalls |-> IdleConsume]
    /\ jobs = {}
    /\ nextJobId = 1
    /\ worker = [w \in Workers |-> IdleWorker]
    /\ testMails = 0
    /\ validation = NoValidation
    /\ status = NoStatus

Init == InitBase /\ apiKey = "xkeysib" /\ render = NoRender

\* ------------------------------------------------------------------ time
Tick(d) ==
    /\ ticks < MaxTicks
    /\ now' = now + d
    /\ ticks' = ticks + 1
    /\ UNCHANGED <<callVars, authVars, jobs, nextJobId, mailVars>>

\* ------------------------------------------ AuthService.requestPasswordReset
\* The calls that had returned when call p was made (bookkeeping only).
IssueReturned == {q \in IssueCalls : issue[q].result = Ok}

\* Mutant: the request goes on without the user row.
RequestPasswordReset_FindUser_NoCheck(p, userId) ==
    /\ issue[p].pc = "idle"
    /\ IF p > 1 THEN issue[p - 1].pc # "idle" ELSE TRUE
    /\ issue' = [issue EXCEPT ![p] =
                    [@ EXCEPT !.userId = userId,
                              !.after = IssueReturned,
                              !.pc = "invalidate"]]
    /\ UNCHANGED <<callVars, now, ticks, users, tokens, consume, jobs, nextJobId, mailVars>>

\* userRepository.findOne({ where: { id: userId } }) and the not-found throw.
\* Calls are numbered in the order they are made.
RequestPasswordReset_FindUser(p, userId) ==
    /\ issue[p].pc = "idle"
    /\ IF p > 1 THEN issue[p - 1].pc # "idle" ELSE TRUE
    /\ issue' = [issue EXCEPT ![p] =
                    [@ EXCEPT !.userId = userId,
                              !.after = IssueReturned,
                              !.pc = IF userId \in Users THEN "invalidate"
                                     ELSE "done",
                              !.result = IF userId \in Users THEN "pending"
                                         ELSE NotFoundException]]
    /\ UNCHANGED <<callVars, now, ticks, users, tokens, consume, jobs, nextJobId, mailVars>>

\* await this.invalidatePreviousTokens(userId)
RequestPasswordReset_Invalidate(p) ==
    /\ issue[p].pc = "invalidate"
    /\ tokens' = invalidatePreviousTokens(tokens, issue[p].userId, NoExclude, now)
    /\ issue' = [issue EXCEPT ![p] =
                    [@ EXCEPT !.pc = "save",
                              !.invalidated =
                                  {i \in 1..Len(tokens) :
                                      /\ tokens[i].userId = issue[p].userId
                                      /\ tokens[i].usedAt = NULL}]]
    /\ UNCHANGED <<callVars, now, ticks, users, consume, jobs, nextJobId, mailVars>>

\* Mutant: the token row expires an hour after it was issued.
RequestPasswordReset_Save_OneHour(p) ==
    /\ issue[p].pc = "save"
    /\ LET plainToken == RandomToken(Len(tokens) + 1)
           resetToken == [id |-> Len(tokens) + 1,
                          userId |-> issue[p].userId,
                          tokenHash |-> hashToken(plainToken),
                          expiresAt |-> now + 60,
                          usedAt |-> NULL,
                          createdAt |-> now]
       IN /\ tokens' = Append(tokens, resetToken)
          /\ issue' = [issue EXCEPT ![p] =
                          [@ EXCEPT !.plainToken = plainToken,
                                    !.tokenId = resetToken.id,
                                    !.pc = "mail"]]
    /\ UNCHANGED <<callVars, now, ticks, users, consume, jobs, nextJobId, mailVars>>

\* randomBytes, hashToken, expiresAt, create and save of the token row.
RequestPasswordReset_Save(p) ==
    /\ issue[p].pc = "save"
    /\ LET plainToken == RandomToken(Len(tokens) + 1)
           resetToken == [id |-> Len(tokens) + 1,
                          userId |-> issue[p].userId,
                          tokenHash |-> hashToken(plainToken),
                          expiresAt |-> now + TOKEN_EXPIRATION_MINUTES,
                          usedAt |-> NULL,
                          createdAt |-> now]
       IN /\ tokens' = Append(tokens, resetToken)
          /\ issue' = [issue EXCEPT ![p] =
                          [@ EXCEPT !.plainToken = plainToken,
                                    !.tokenId = resetToken.id,
                                    !.pc = "mail"]]
    /\ UNCHANGED <<callVars, now, ticks, users, consume, jobs, nextJobId, mailVars>>

\* Mutant: the request waits for the delivery and passes its failure on.
RequestPasswordReset_SendMail_Sync(p) ==
    /\ issue[p].pc = "mail"
    /\ LET user == users[issue[p].userId]
       IN jobs' = jobs \cup {NewJob(nextJobId,
                     PasswordResetMail(user.email, user.first_name,
                                       issue[p].plainToken))}
    /\ nextJobId' = nextJobId + 1
    /\ \E response \in {"201", "500"} :
          issue' = [issue EXCEPT ![p] =
                       [@ EXCEPT !.pc = "done", !.jobId = nextJobId,
                                 !.result = IF response = "201" THEN Ok
                                            ELSE QueueError]]
    /\ UNCHANGED <<callVars, now, ticks, users, tokens, consume, mailVars>>

\* await this.mailService.sendPasswordResetEmail(email, first_name, plainToken)
RequestPasswordReset_SendMail(p) ==
    /\ issue[p].pc = "mail"
    /\ LET user == users[issue[p].userId]
       IN jobs' = jobs \cup {NewJob(nextJobId,
                     PasswordResetMail(user.email, user.first_name,
                                       issue[p].plainToken))}
    /\ nextJobId' = nextJobId + 1
    /\ issue' = [issue EXCEPT ![p] =
                    [@ EXCEPT !.pc = "done", !.result = Ok,
                              !.jobId = nextJobId]]
    /\ UNCHANGED <<callVars, now, ticks, users, tokens, consume, mailVars>>

\* Mutant: when mailQueue.add rejects, the new token is taken out of use.
RequestPasswordReset_SendMailFails_RollsBack(p) ==
    /\ issue[p].pc = "mail"
    /\ tokens' = [tokens EXCEPT ![issue[p].tokenId].usedAt = now]
    /\ issue' = [issue EXCEPT ![p] =
                    [@ EXCEPT !.pc = "done", !.result = QueueError]]
    /\ UNCHANGED <<callVars, now, ticks, users, consume, jobs, nextJobId, mailVars>>

\* mailQueue.add rejects (the queue store is unreachable): the request
\* fails after the token row was saved.
RequestPasswordReset_SendMailFails(p) ==
    /\ issue[p].pc = "mail"
    /\ issue' = [issue EXCEPT ![p] =
                    [@ EXCEPT !.pc = "done", !.result = QueueError]]
    /\ UNCHANGED <<callVars, now, ticks, users, tokens, consume, jobs, nextJobId, mailVars>>

\* A repository call of the request rejects: the request ends there.
RequestPasswordReset_DbError(p) ==
    /\ issue[p].pc \in {"invalidate", "save"}
    /\ issue' = [issue EXCEPT ![p] =
                    [@ EXCEPT !.pc = "done", !.result = DbError]]
    /\ UNCHANGED <<callVars, now, ticks, users, tokens, consume, jobs, nextJobId, mailVars>>

\* ------------------------------------------------ AuthService.resetPassword
\* The password a call carries (the value is stored, never compared).
NewPasswordOf(c) == IF c = 1 THEN "pwA" ELSE "pwB"

\* Why no row matches the where-clause (bookkeeping for the lookup).
LookupCase(toks, tokenHash, at) ==
    LET rows == {i \in 1..Len(toks) : toks[i].tokenHash = tokenHash}
    IN IF rows = {} THEN "not found"
       ELSE IF \E i \in rows : toks[i].usedAt # NULL THEN "used"
       ELSE IF \E i \in rows : ~(toks[i].expiresAt > at) THEN "expired"
       ELSE "valid"

ConsumeSucceeded == {d \in ConsumeCalls : consume[d].result = Ok}
ConsumeInFlight == {d \in ConsumeCalls :
                      consume[d].pc \in {"updateUser", "markUsed", "invalidateOthers"}}

\* Mutant: an expired token is reported with a message of its own.
ResetPassword_FindToken_Leaky(c, token) ==
    /\ consume[c].pc = "idle"
    /\ IF c > 1 THEN consume[c - 1].pc # "idle" ELSE TRUE
    /\ LET tokenHash == hashToken(token)
           found == FindValidToken(tokens, tokenHash, now)
           case == LookupCase(tokens, tokenHash, now)
           call == [consume[c] EXCEPT !.token = token,
                                      !.newPassword = NewPasswordOf(c),
                                      !.why = case,
                                      !.after = ConsumeSucceeded,
                                      !.inflight = ConsumeInFlight]
       IN IF found = {}
          THEN consume' = [consume EXCEPT ![c] =
                             [call EXCEPT !.pc = "done",
                                          !.result =
                                              IF case = "expired"
                                              THEN "BadRequestException: Reset token expired"
                                              ELSE BadRequestException]]
          ELSE \E id \in found :
                  consume' = [consume EXCEPT ![c] =
                                [call EXCEPT !.pc = "updateUser",
                                             !.resetTokenId = id]]
    /\ UNCHANGED <<callVars, now, ticks, users, tokens, issue, jobs, nextJobId, mailVars>>

\* hashToken, findOne of the valid unused row, and the throw when there is
\* none.  Calls are numbered in the order they are made.
ResetPassword_FindToken(c, token) ==
    /\ consume[c].pc = "idle"
    /\ IF c > 1 THEN consume[c - 1].pc # "idle" ELSE TRUE
    /\ LET tokenHash == hashToken(token)
           found == FindValidToken(tokens, tokenHash, now)
           call == [consume[c] EXCEPT !.token = token,
                                      !.newPassword = NewPasswordOf(c),
                                      !.why = LookupCase(tokens, tokenHash, now),
                                      !.after = ConsumeSucceeded,
                                      !.inflight = ConsumeInFlight]
       IN IF found = {}
          THEN consume' = [consume EXCEPT ![c] =
                             [call EXCEPT !.pc = "done",
                                          !.result = BadRequestException]]
          ELSE \E id \in found :
                  consume' = [consume EXCEPT ![c] =
                                [call EXCEPT !.pc = "updateUser",
                                             !.resetTokenId = id]]
    /\ UNCHANGED <<callVars, now, ticks, users, tokens, issue, jobs, nextJobId, mailVars>>

\* bcrypt.hash and userRepository.update(resetToken.userId, { password })
ResetPassword_UpdateUser(c) ==
    /\ consume[c].pc = "updateUser"
    /\ LET userId == tokens[consume[c].resetTokenId].userId
       IN users' = [users EXCEPT ![userId].password =
                                    bcryptHash(consume[c].newPassword)]
    /\ consume' = [consume EXCEPT ![c].pc = "markUsed"]
    /\ UNCHANGED <<callVars, now, ticks, tokens, issue, jobs, nextJobId, mailVars>>

\* Mutant: the token row is not marked as used.
ResetPassword_MarkUsed_NotMarked(c) ==
    /\ consume[c].pc = "markUsed"
    /\ consume' = [consume EXCEPT ![c].pc = "invalidateOthers"]
    /\ UNCHANGED <<callVars, now, ticks, users, tokens, issue, jobs, nextJobId, mailVars>>

\* passwordResetTokenRepository.update(resetToken.id, { usedAt: new Date() })
ResetPassword_MarkUsed(c) ==
    /\ consume[c].pc = "markUsed"
    /\ tokens' = [tokens EXCEPT ![consume[c].resetTokenId].usedAt = now]
    /\ consume' = [consume EXCEPT ![c].pc = "invalidateOthers"]
    /\ UNCHANGED <<callVars, now, ticks, users, issue, jobs, nextJobId, mailVars>>

\* Mutant: the owner's other tokens are left alone.
ResetPassword_InvalidateOthers_Skipped(c) ==
    /\ consume[c].pc = "invalidateOthers"
    /\ consume' = [consume EXCEPT ![c] = [@ EXCEPT !.pc = "done", !.result = Ok]]
    /\ UNCHANGED <<callVars, now, ticks, users, tokens, issue, jobs, nextJobId, mailVars>>

\* this.invalidatePreviousTokens(resetToken.userId, resetToken.id)
ResetPassword_InvalidateOthers(c) ==
    /\ consume[c].pc = "invalidateOthers"
    /\ LET id == consume[c].resetTokenId
       IN tokens' = invalidatePreviousTokens(tokens, tokens[id].userId, id, now)
    /\ consume' = [consume EXCEPT ![c] = [@ EXCEPT !.pc = "done", !.result = Ok]]
    /\ UNCHANGED <<callVars, now, ticks, users, issue, jobs, nextJobId, mailVars>>

\* A repository call of the request rejects, or the process stops: the
\* request ends where it is (there is no transaction to roll back).
ResetPassword_DbError(c) ==
    /\ consume[c].pc \in {"updateUser", "markUsed", "invalidateOthers"}
    /\ consume' = [consume EXCEPT ![c] =
                      [@ EXCEPT !.pc = "done", !.result = DbError]]
    /\ UNCHANGED <<callVars, now, ticks, users, tokens, issue, jobs, nextJobId, mailVars>>

Next ==
    \/ \E d \in TickSteps : Tick(d)
    \/ \E p \in IssueCalls, u \in UserIds : RequestPasswordReset_FindUser(p, u)
    \/ \E p \in IssueCalls : RequestPasswordReset_Invalidate(p)
    \/ \E p \in IssueCalls : RequestPasswordReset_Save(p)
    \/ \E p \in IssueCalls : RequestPasswordReset_SendMail(p)
    \/ \E p \in IssueCalls : RequestPasswordReset_SendMailFails(p)
    \/ \E p \in IssueCalls : RequestPasswordReset_DbError(p)
    \/ \E c \in ConsumeCalls, t \in Secrets : ResetPassword_FindToken(c, t)
    \/ \E c \in ConsumeCalls : ResetPassword_UpdateUser(c)
    \/ \E c \in ConsumeCalls : ResetPassword_MarkUsed(c)
    \/ \E c \in ConsumeCalls : ResetPassword_InvalidateOthers(c)
    \/ \E c \in ConsumeCalls : ResetPassword_DbError(c)

Spec == Init /\ [][Next]_vars

\* ------------------------------------------ AuthService.validateResetToken
\* A validateResetToken call: one findOne, the result goes to the caller.
ValidateResetToken(token) ==
    /\ validation' = [token |-> token,
                      result |-> validateResetToken(tokens, token, now)]
    /\ UNCHANGED <<now, ticks, authVars, jobs, nextJobId, mailVars, render, status>>

NextValidate ==
    \/ Next
    \/ \E token \in Secrets : ValidateResetToken(token)

SpecValidate == Init /\ [][NextValidate]_vars

\* ======================================================== the mail queue
\* Template files of src/modules/mail/templates, by name.
TemplateFiles ==
    ("welcome" :> (Str("Bienvenue ") \o << <<"var", "firstName">> >>
                   \o Str(" sur ") \o << <<"var", "appName">> >>
                   \o Str(": ") \o << <<"var", "loginUrl">> >>))
    @@ ("reset-password" :> (Str("Bonjour ") \o << <<"var", "firstName">> >>
                   \o Str(", lien: ") \o << <<"var", "resetLink">> >>
                   \o Str(" valable ") \o << <<"var", "expirationTime">> >>))
    @@ ("user-created" :> (Str("Bonjour ") \o << <<"var", "firstName">> >>
                   \o Str(", compte cree: ") \o << <<"var", "loginUrl">> >>
                   \o Str(" ") \o << <<"var", "tempPassword">> >>))

\* What String.prototype.replace inserts for a replacement string: "$$"
\* stands for one "$" and "$&" for the matched text, all else is literal.
RECURSIVE ExpandReplacement(_, _)
ExpandReplacement(value, matched) ==
    IF value = <<>> THEN <<>>
    ELSE (IF Head(value) = <<"text", "$$">> THEN << <<"text", "$">> >>
          ELSE IF Head(value) = <<"text", "$&">> THEN <<matched>>
          ELSE <<Head(value)>>)
             \o ExpandReplacement(Tail(value), matched)

\* htmlContent.replace(new RegExp(`{{\s*${key}\s*}}`, 'g'), value)
RECURSIVE ReplaceVar(_, _, _)
ReplaceVar(text, key, value) ==
    IF text = <<>> THEN <<>>
    ELSE (IF Head(text) = <<"var", key>>
          THEN ExpandReplacement(value, Head(text))
          ELSE <<Head(text)>>)
             \o ReplaceVar(Tail(text), key, value)

\* for (const [key, value] of Object.entries(params)) ...
RECURSIVE ReplaceParams(_, _)
ReplaceParams(text, params) ==
    IF params = <<>> THEN text
    ELSE ReplaceParams(ReplaceVar(text, Head(params).key, Head(params).value),
                       Tail(params))

\* htmlContent.replace(/{{\s*\w+\s*}}/g, '')
RemoveUnreplaced(text) == SelectSeq(text, LAMBDA part : part[1] # "var")

\* MailProcessor.loadTemplate, once the file was read.
loadTemplate(body, params) == RemoveUnreplaced(ReplaceParams(body, params))

\* Responses of the Brevo API to the POST, and the message of the Error
\* sendViaBrevo / handleBrevoError throws for each ("" when none).
BrevoResponses == {"201", "429", "401", "400", "500", "timeout"}
handleBrevoError(response) ==
    IF response = "429" THEN "Email rate limit exceeded. Will retry."
    ELSE IF response = "401" THEN "Email service authentication failed."
    ELSE IF response = "400" THEN "Invalid email request"
    ELSE "Failed to send email"

RECURSIVE Pow2(_)
Pow2(n) == IF n <= 0 THEN 1 ELSE 2 * Pow2(n - 1)

\* Mutant: the backoff formula (2^n - 1) * delay.
BackoffDelay_MinusOne(opts, n) == opts.backoff.delay * (Pow2(n) - 1)

\* Mutant: the backoff does not grow.
BackoffDelay_Fixed(opts, n) == opts.backoff.delay

\* The exponential backoff of the job options after the n-th attempt.
BackoffDelay(opts, n) == opts.backoff.delay * Pow2(n - 1)

\* Mutant: a job that used up its attempts is scheduled once more.
MoveToFailed_RetryForever(job, message) ==
    IF job.attemptsMade + 1 < job.opts.attempts
    THEN [job EXCEPT !.attemptsMade = @ + 1,
                     !.state = "delayed",
                     !.delay = BackoffDelay(job.opts, job.attemptsMade + 1),
                     !.failedReason = message]
    ELSE [job EXCEPT !.state = "delayed",
                     !.failedReason = message]

\* What the queue does with a job whose processor threw: retried after the
\* backoff delay while attempts remain, failed (and kept, removeOnFail is
\* false) otherwise.
MoveToFailed(job, message) ==
    IF job.attemptsMade + 1 < job.opts.attempts
    THEN [job EXCEPT !.attemptsMade = @ + 1,
                     !.state = "delayed",
                     !.delay = BackoffDelay(job.opts, job.attemptsMade + 1),
                     !.failedReason = message]
    ELSE [job EXCEPT !.attemptsMade = @ + 1,
                     !.state = "failed",
                     !.failedReason = message]

JobOf(w) == CHOOSE job \in jobs : job.id = worker[w].job
JobsById(js, id) == {job \in js : job.id = id}

\* The bodies MailController.sendTestEmail is called with.
TestMailDtos ==
    {[to |-> Str("ana@example.com"), subject |-> Str("Welcome!"),
      template |-> "welcome",
      params |-> << [key |-> "firstName", value |-> Str("Ana")] >>],
     [to |-> Str("ana@example.com"), subject |-> Str("Welcome!"),
      template |-> "no-such-template",
      params |-> << [key |-> "firstName", value |-> Str("Ana")] >>]}

\* MailController.sendTestEmail -> MailService.enqueueMail
MailController_SendTestEmail(dto) ==
    /\ testMails < MaxTestMails
    /\ jobs' = jobs \cup {NewJob(nextJobId, dto)}
    /\ nextJobId' = nextJobId + 1
    /\ testMails' = testMails + 1
    /\ UNCHANGED <<callVars, now, ticks, authVars, worker, apiKey>>

\* Mutant: the worker takes a job whatever other worker holds it.
Worker_GetNextJob_NoLock(w, job) ==
    /\ worker[w].pc = "idle"
    /\ job \in jobs
    /\ job.state \in {"waiting", "active"}
    /\ jobs' = (jobs \ {job}) \cup {[job EXCEPT !.state = "active"]}
    /\ worker' = [worker EXCEPT ![w] =
                     [job |-> job.id, pc |-> "loadTemplate", htmlContent |-> <<>>]]
    /\ UNCHANGED <<callVars, now, ticks, authVars, nextJobId, testMails, apiKey>>

\* An idle worker takes a waiting job: the job is active and locked by it.
Worker_GetNextJob(w, job) ==
    /\ worker[w].pc = "idle"
    /\ job \in jobs
    /\ job.state = "waiting"
    /\ jobs' = (jobs \ {job}) \cup {[job EXCEPT !.state = "active"]}
    /\ worker' = [worker EXCEPT ![w] =
                     [job |-> job.id, pc |-> "loadTemplate", htmlContent |-> <<>>]]
    /\ UNCHANGED <<callVars, now, ticks, authVars, nextJobId, testMails, apiKey>>

\* MailProcessor.process -> handleSendEmail -> loadTemplate.  For a job of
\* another name process only logs a warning and returns: the job completes.
MailProcessor_LoadTemplate(w) ==
    /\ worker[w].pc = "loadTemplate"
    /\ LET job == JobOf(w)
       IN IF job.name # MAIL_JOB_NAMES.SEND_EMAIL
          THEN /\ jobs' = IF job.opts.removeOnComplete
                          THEN jobs \ {job}
                          ELSE (jobs \ {job}) \cup {[job EXCEPT !.state = "completed"]}
               /\ worker' = [worker EXCEPT ![w] = IdleWorker]
          ELSE IF job.data.template \in DOMAIN TemplateFiles
          THEN /\ worker' = [worker EXCEPT ![w] =
                     [@ EXCEPT !.pc = "send",
                               !.htmlContent =
                                   loadTemplate(TemplateFiles[job.data.template],
                                                job.data.params)]]
               /\ jobs' = jobs
          ELSE /\ jobs' = (jobs \ {job})
                            \cup {MoveToFailed(job, "Email template not found")}
               /\ worker' = [worker EXCEPT ![w] = IdleWorker]
    /\ UNCHANGED <<callVars, now, ticks, authVars, nextJobId, testMails, apiKey>>

\* Mutant: the processor waits for the backoff itself and keeps the job.
MailProcessor_SendViaBrevo_Sleeps(w, response) ==
    /\ worker[w].pc = "send"
    /\ LET job == JobOf(w)
           posted == [job EXCEPT !.sends = @ + 1]
       IN IF apiKey # "" /\ response = "201"
          THEN /\ jobs' = jobs \ {job}
               /\ worker' = [worker EXCEPT ![w] = IdleWorker]
          ELSE /\ jobs' = (jobs \ {job})
                            \cup {MoveToFailed(posted, handleBrevoError(response))}
               /\ worker' = [worker EXCEPT ![w].pc = "sleep"]
    /\ UNCHANGED <<callVars, now, ticks, authVars, nextJobId, testMails, apiKey>>

\* Mutant: a 401 or 400 of the provider fails the job at once.
MailProcessor_SendViaBrevo_Unrecoverable(w, response) ==
    /\ worker[w].pc = "send"
    /\ LET job == JobOf(w)
           posted == [job EXCEPT !.sends = @ + 1]
       IN IF apiKey = ""
          THEN jobs' = (jobs \ {job})
                         \cup {MoveToFailed(job, "Email service is not configured")}
          ELSE IF response = "201"
          THEN jobs' = jobs \ {job}
          ELSE IF response \in {"401", "400"}
          THEN jobs' = (jobs \ {job})
                         \cup {[posted EXCEPT !.attemptsMade = @ + 1,
                                              !.state = "failed",
                                              !.failedReason = handleBrevoError(response)]}
          ELSE jobs' = (jobs \ {job})
                         \cup {MoveToFailed(posted, handleBrevoError(response))}
    /\ worker' = [worker EXCEPT ![w] = IdleWorker]
    /\ UNCHANGED <<callVars, now, ticks, authVars, nextJobId, testMails, apiKey>>

\* Mutant: a delivery that fails takes the unconsumed tokens out of use.
MailProcessor_SendViaBrevo_RevokesTokens(w, response) ==
    /\ worker[w].pc = "send"
    /\ LET job == JobOf(w)
           posted == [job EXCEPT !.sends = @ + 1]
       IN IF response = "201"
          THEN /\ jobs' = jobs \ {job}
               /\ tokens' = tokens
          ELSE /\ jobs' = (jobs \ {job})
                            \cup {MoveToFailed(posted, handleBrevoError(response))}
               /\ tokens' = [i \in 1..Len(tokens) |->
                                IF tokens[i].usedAt = NULL
                                THEN [tokens[i] EXCEPT !.usedAt = now]
                                ELSE tokens[i]]
    /\ worker' = [worker EXCEPT ![w] = IdleWorker]
    /\ UNCHANGED <<callVars, now, ticks, users, issue, consume, nextJobId,
                   testMails, apiKey>>

\* MailProcessor.sendViaBrevo and the end of the job.
MailProcessor_SendViaBrevo(w, response) ==
    /\ worker[w].pc = "send"
    /\ LET job == JobOf(w)
           posted == [job EXCEPT !.sends = @ + 1]
       IN IF apiKey = ""
          THEN jobs' = (jobs \ {job})
                         \cup {MoveToFailed(job, "Email service is not configured")}
          ELSE IF response = "201"
          THEN jobs' = IF job.opts.removeOnComplete
                       THEN jobs \ {job}
                       ELSE (jobs \ {job}) \cup {[posted EXCEPT !.state = "completed"]}
          ELSE jobs' = (jobs \ {job})
                         \cup {MoveToFailed(posted, handleBrevoError(response))}
    /\ worker' = [worker EXCEPT ![w] = IdleWorker]
    /\ UNCHANGED <<callVars, now, ticks, authVars, nextJobId, testMails, apiKey>>

\* The backoff delay of a delayed job has elapsed.
Queue_PromoteDelayed(job) ==
    /\ job \in jobs
    /\ job.state = "delayed"
    /\ jobs' = (jobs \ {job}) \cup {[job EXCEPT !.state = "waiting"]}
    /\ UNCHANGED <<callVars, now, ticks, authVars, nextJobId, worker, testMails, apiKey>>

\* The worker process dies while it holds a job and is started again: the
\* job stays active, its lock is no longer renewed.
Worker_Crash(w) ==
    /\ worker[w].pc \in {"loadTemplate", "send"}
    /\ worker' = [worker EXCEPT ![w] = IdleWorker]
    /\ UNCHANGED <<callVars, now, ticks, authVars, jobs, nextJobId, testMails, apiKey>>

\* An active job no worker holds (its lock expired).
Stalled(job) == job.state = "active" /\ \A w \in Workers : worker[w].job # job.id

\* How often the queue puts a stalled job back before it fails it.
MaxStalledCount == 1

\* The queue finds a stalled job: back to waiting, or failed when it
\* stalled more often than allowed.
Queue_MoveStalled(job) ==
    /\ job \in jobs
    /\ Stalled(job)
    /\ jobs' = (jobs \ {job}) \cup
                {IF job.stalledCount >= MaxStalledCount
                 THEN [job EXCEPT !.state = "failed",
                                  !.failedReason = "job stalled more than allowable limit"]
                 ELSE [job EXCEPT !.state = "waiting",
                                  !.stalledCount = @ + 1]}
    /\ UNCHANGED <<callVars, now, ticks, authVars, nextJobId, worker, testMails, apiKey>>

\* MailService.getQueueStatus
getQueueStatus(js) ==
    [waiting |-> Cardinality({job \in js : job.state = "waiting"}),
     active |-> Cardinality({job \in js : job.state = "active"}),
     completed |-> Cardinality({job \in js : job.state = "completed"}),
     failed |-> Cardinality({job \in js : job.state = "failed"}),
     delayed |-> Cardinality({job \in js : job.state = "delayed"})]

NextMail ==
    \/ \E dto \in TestMailDtos : MailController_SendTestEmail(dto)
    \/ \E w \in Workers : \E job \in jobs : Worker_GetNextJob(w, job)
    \/ \E w \in Workers : MailProcessor_LoadTemplate(w)
    \/ \E w \in Workers, r \in BrevoResponses : MailProcessor_SendViaBrevo(w, r)
    \/ \E job \in jobs : Queue_PromoteDelayed(job)
    \/ \E w \in Workers : Worker_Crash(w)
    \/ \E job \in jobs : Queue_MoveStalled(job)

InitMail == InitBase /\ apiKey \in ApiKeys /\ render = NoRender

SpecMail == InitMail /\ [][NextMail]_vars

\* The password reset flow end to end: requests, their jobs and the workers
\* (the provider accepts the mail or limits the rate).
FlowResponses == {"201", "429"}

NextFlow ==
    \/ \E d \in TickSteps : Tick(d)
    \/ \E p \in IssueCalls, userId \in UserIds : RequestPasswordReset_FindUser(p, userId)
    \/ \E p \in IssueCalls : RequestPasswordReset_Invalidate(p)
    \/ \E p \in IssueCalls : RequestPasswordReset_Save(p)
    \/ \E p \in IssueCalls : RequestPasswordReset_SendMail(p)
    \/ \E p \in IssueCalls : RequestPasswordReset_SendMailFails(p)
    \/ \E p \in IssueCalls : RequestPasswordReset_DbError(p)
    \/ \E w \in Workers : \E job \in jobs : Worker_GetNextJob(w, job)
    \/ \E w \in Workers : MailProcessor_LoadTemplate(w)
    \/ \E w \in Workers, r \in FlowResponses : MailProcessor_SendViaBrevo(w, r)
    \/ \E job \in jobs : Queue_PromoteDelayed(job)

SpecFlow == Init /\ [][NextFlow]_vars

\* --------------------------------------------- MailProcessor.loadTemplate
\* Template bodies and parameter mappings loadTemplate is applied to.
MaxBodyLen == 4
MaxParams == 2
RenderKeys == {"firstName", "code"}
RenderParts == {<<"text", "Hi ">>, <<"text", ", code ">>}
                  \cup {<<"var", key>> : key \in RenderKeys}
RenderValues == {Str("Ana"), Str("$$"), << <<"var", "code">> >>}
SeqsUpTo(S, n) == UNION {[1..k -> S] : k \in 0..n}
RenderBodies == SeqsUpTo(RenderParts, MaxBodyLen)
\* Object.entries of a mapping: no key twice.
RenderParams ==
    {params \in SeqsUpTo([key : RenderKeys, value : RenderValues], MaxParams) :
        \A i, j \in 1..Len(params) : params[i].key = params[j].key => i = j}

InitRender ==
    /\ InitBase
    /\ apiKey = "xkeysib"
    /\ \E body \in RenderBodies, params \in RenderParams :
          render = [NoRender EXCEPT !.body = body, !.params = params]

\* loadTemplate on a template body that was read.
MailProcessor_Render ==
    /\ render.pc = "idle"
    /\ render' = [render EXCEPT
                     !.pc = "done",
                     !.htmlContent = loadTemplate(render.body, render.params)]
    /\ UNCHANGED <<now, ticks, authVars, jobs, nextJobId, mailVars, validation, status>>

NextRender == MailProcessor_Render

SpecRender == InitRender /\ [][NextRender]_vars

\* ------------------------------------------- MailService.getQueueStatus
\* The five counts of Promise.all, in the order the commands are sent.
StatusOrder == <<"waiting", "active", "completed", "failed", "delayed">>

\* One of the five count queries of a getQueueStatus call is answered; the
\* queue may change between two of them.
GetQueueStatus_Count ==
    /\ Len(status.counts) < Len(StatusOrder)
    /\ LET state == StatusOrder[Len(status.counts) + 1]
           hit == {job \in jobs : job.state = state}
           before == IF status.pc = "idle"
                     THEN [id \in {job.id : job \in jobs} |-> 0]
                     ELSE status.counted
       IN status' =
            [pc |-> IF Len(status.counts) + 1 = Len(StatusOrder)
                    THEN "done" ELSE "counting",
             counts |-> Append(status.counts, Cardinality(hit)),
             present |-> DOMAIN before,
             counted |-> [id \in DOMAIN before |->
                            before[id] + Cardinality(JobsById(hit, id))]]
    /\ UNCHANGED <<now, ticks, authVars, jobs, nextJobId, mailVars,
                   validation, render>>

\* The queue, its workers and a status query.
NextStatus ==
    \/ \E dto \in TestMailDtos : MailController_SendTestEmail(dto)
    \/ \E w \in Workers : \E job \in jobs : Worker_GetNextJob(w, job)
    \/ \E w \in Workers : MailProcessor_LoadTemplate(w)
    \/ \E w \in Workers, r \in FlowResponses : MailProcessor_SendViaBrevo(w, r)
    \/ \E job \in jobs : Queue_PromoteDelayed(job)
    \/ GetQueueStatus_Count

SpecStatus == Init /\ [][NextStatus]_vars

\* Scheduling of the queue: idle workers keep polling, an awaited read or
\* HTTP call returns (the HTTP client times out), the queue's timers promote
\* delayed jobs and look for stalled ones.  Enqueues and crashes are not fair.
FairMail ==
    /\ WF_vars(\E w \in Workers : \E job \in jobs : Worker_GetNextJob(w, job))
    /\ \A w \in Workers : WF_vars(MailProcessor_LoadTemplate(w))
    /\ \A w \in Workers :
          WF_vars(\E r \in BrevoResponses : MailProcessor_SendViaBrevo(w, r))
    /\ WF_vars(\E job \in jobs : Queue_PromoteDelayed(job))
    /\ WF_vars(\E job \in jobs : Queue_MoveStalled(job))

SpecMailFair == InitMail /\ [][NextMail]_vars /\ FairMail

\* ================================================================ claims
TokenIds == 1..Len(tokens)
ValidTokensOf(u) == {i \in TokenIds : tokens[i].userId = u /\ isValid(tokens[i], now)}
IssuedSecrets == {issue[p].plainToken : p \in {q \in IssueCalls : issue[q].plainToken # NoToken}}
PassedLookup(c) == consume[c].resetTokenId # 0

\* C1: in every reachable state, whatever the interleaving of issue and
\* consume calls, each owner has at most one token record with usedAt = null
\* and now < expiresAt.
C1_AtMostOneValidTokenPerOwner ==
    \A u \in Users : Cardinality(ValidTokensOf(u)) <= 1

\* C2: when two consume calls race on the same valid secret, exactly one of
\* them succeeds; the other fails with InvalidOrExpiredToken.  Stated as:
\* no two calls carrying the same secret both succeed.
C2_SameSecretOneWinner ==
    \A c, d \in ConsumeCalls :
        (c # d /\ consume[c].result = Ok /\ consume[d].result = Ok)
            => consume[c].token # consume[d].token

\* C3: consume is atomic: when a call that passed its lookup has ended,
\* for whatever reason, the owner's credential does not hold the call's new
\* password while the call's token is still valid.
C3_ConsumeAtomic ==
    \A c \in ConsumeCalls :
        (consume[c].pc = "done" /\ PassedLookup(c)) =>
            LET t == tokens[consume[c].resetTokenId]
            IN ~(/\ users[t.userId].password = bcryptHash(consume[c].newPassword)
                 /\ isValid(t, now))

\* C4: when two consume calls run concurrently with two different valid
\* secrets of the same owner, at most one of them succeeds.
C4_SiblingSecretsOneWinner ==
    \A c, d \in ConsumeCalls :
        (/\ c # d
         /\ d \in consume[c].inflight
         /\ consume[c].token # consume[d].token
         /\ PassedLookup(c) /\ PassedLookup(d)
         /\ tokens[consume[c].resetTokenId].userId = tokens[consume[d].resetTokenId].userId)
        => ~(consume[c].result = Ok /\ consume[d].result = Ok)

\* The texts a job record persists.
JobTexts(job) ==
    {job.data.to, job.data.subject, Str(job.data.template)}
        \cup {job.data.params[k].value : k \in DOMAIN job.data.params}
JobTextsButResetLink(job) ==
    {job.data.to, job.data.subject, Str(job.data.template)}
        \cup {job.data.params[k].value :
                 k \in {i \in DOMAIN job.data.params :
                           job.data.params[i].key # "resetLink"}}
ResetLinkOf(job) ==
    {job.data.params[k].value :
        k \in {i \in DOMAIN job.data.params : job.data.params[i].key = "resetLink"}}

\* C5 as stated: the plaintext secret generated by issue is in no persistent
\* record, neither a token record nor a queue job record.
C5_SecretNeverPersisted ==
    \A s \in IssuedSecrets :
        /\ \A i \in TokenIds : ~Contains(tokens[i].tokenHash, s)
        /\ \A job \in jobs : \A x \in JobTexts(job) : ~Contains(x, s)

\* C5 amended: no token record contains a plaintext secret (it holds the
\* digest), and a queue job record contains it in its resetLink parameter
\* only.
C5_SecretOnlyInResetLink ==
    \A s \in IssuedSecrets :
        /\ \A i \in TokenIds :
              /\ ~Contains(tokens[i].tokenHash, s)
              /\ \E q \in IssuedSecrets : tokens[i].tokenHash = hashToken(q)
        /\ \A job \in jobs :
              \A x \in JobTextsButResetLink(job) : ~Contains(x, s)

C5_Witness ==
    \E p \in IssueCalls : \E job \in jobs :
        /\ issue[p].result = Ok
        /\ tokens[issue[p].tokenId].tokenHash = hashToken(issue[p].plainToken)
        /\ \E link \in ResetLinkOf(job) : Contains(link, issue[p].plainToken)

\* C6: after two sequential successful issue calls for one owner, validate
\* on the first secret returns false, and validate on the second secret
\* returns true once its record is saved.
C6_FirstSecretInvalid ==
    \A p \in IssueCalls : \A q \in issue[p].after :
        (issue[p].result = Ok /\ issue[q].userId = issue[p].userId)
            => ~validateResetToken(tokens, issue[q].plainToken, now)
C6_SecondSecretValid ==
    \A p \in IssueCalls :
        (issue[p].pc = "save" /\ issue'[p].pc = "mail")
            => validateResetToken(tokens', issue'[p].plainToken, now')
C6_SecondIssueInvalidatesFirst ==
    []C6_FirstSecretInvalid /\ [][C6_SecondSecretValid]_vars

C6_Witness ==
    \E p \in IssueCalls : \E q \in issue[p].after :
        /\ issue[p].result = Ok
        /\ issue[q].userId = issue[p].userId
        /\ validateResetToken(tokens, issue[p].plainToken, now)
        /\ ~validateResetToken(tokens, issue[q].plainToken, now)

\* C7: once a consume with a secret has succeeded, every later consume with
\* the same secret fails with InvalidOrExpiredToken.
C7_ConsumeSucceedsOnce ==
    \A c \in ConsumeCalls : \A d \in consume[c].after :
        consume[c].token = consume[d].token
            => /\ consume[c].result = BadRequestException
               /\ ~PassedLookup(c)

C7_Witness ==
    \E c \in ConsumeCalls : \E d \in consume[c].after :
        /\ consume[c].token = consume[d].token
        /\ consume[c].result = BadRequestException

\* The step in which call c does its lookup.
LookupStep(c) == consume[c].pc = "idle" /\ consume'[c].pc # "idle"
CaseOf(c) == LookupCase(tokens, hashToken(consume'[c].token), now)

\* C8: consume with a secret whose token has usedAt = null but whose
\* expiresAt is not after the current time fails with InvalidOrExpiredToken
\* and leaves the credential and all token records unchanged.
C8_ExpiredTokenRejected ==
    [][\A c \in ConsumeCalls :
          (LookupStep(c) /\ CaseOf(c) = "expired")
              => /\ consume'[c].result = BadRequestException
                 /\ consume'[c].pc = "done"
                 /\ users' = users
                 /\ tokens' = tokens]_vars

C8_Witness ==
    \E c \in ConsumeCalls :
        /\ consume[c].why = "expired"
        /\ consume[c].result = BadRequestException
        /\ \E i \in TokenIds : /\ tokens[i].tokenHash = hashToken(consume[c].token)
                               /\ tokens[i].usedAt = NULL

\* C9: a failing lookup has the same outcome whether the secret matches no
\* record, an expired record or a used record: any two such calls return
\* the same error, and the step changes no record.
FailCases == {"not found", "expired", "used"}
C9_SameError ==
    \A c, d \in ConsumeCalls :
        (consume[c].why \in FailCases /\ consume[d].why \in FailCases)
            => /\ consume[c].result = consume[d].result
               /\ consume[c].result = BadRequestException
C9_NoChange ==
    \A c \in ConsumeCalls :
        (LookupStep(c) /\ CaseOf(c) \in FailCases)
            => /\ consume'[c].pc = "done"
               /\ users' = users /\ tokens' = tokens /\ jobs' = jobs
C9_UniformRejection == []C9_SameError /\ [][C9_NoChange]_vars

C9_Witness ==
    \E c, d \in ConsumeCalls :
        /\ consume[c].why = "expired" /\ consume[d].why = "used"
        /\ consume[c].result = consume[d].result

\* C10 as stated: a job whose template name does not resolve is failed
\* after its first attempt, is never delayed or attempted again, and no
\* delivery call is made for it.
UnresolvedTemplate(job) == job.data.template \notin DOMAIN TemplateFiles
C10_MissingTemplateFailsOnce ==
    \A job \in jobs :
        (UnresolvedTemplate(job) /\ job.attemptsMade >= 1)
            => /\ job.state = "failed"
               /\ job.attemptsMade = 1
               /\ job.sends = 0

\* Delivery failures: the messages sendViaBrevo can end an attempt with.
DeliveryErrors == {handleBrevoError(r) : r \in BrevoResponses \ {"201"}}

\* C11: a job whose delivery calls all fail is attempted at most
\* maxAttempts (5) times, each retry is scheduled with a delay strictly
\* greater than the previous one, and after the last attempt the job is
\* failed and stays counted in the failed count of the status query.
C11_AttemptsBounded ==
    \A job \in jobs :
        /\ job.attemptsMade <= job.opts.attempts
        /\ job.sends <= job.opts.attempts
        /\ job.attemptsMade = job.opts.attempts => job.state = "failed"
        /\ (job.state = "failed" /\ job.failedReason \in DeliveryErrors)
              => job.attemptsMade = job.opts.attempts
C11_DelayGrowsFailedStays ==
    /\ \A job \in jobs : \A next \in JobsById(jobs', job.id) :
          (job.state = "active" /\ next.state = "delayed" /\ job.attemptsMade >= 1)
              => next.delay > job.delay
    /\ \A job \in jobs : job.state = "failed" => job \in jobs'
    /\ getQueueStatus(jobs').failed >= getQueueStatus(jobs).failed
C11_RetriedUpToMaxAttempts ==
    []C11_AttemptsBounded /\ [][C11_DelayGrowsFailedStays]_vars

C11_Witness ==
    \E job \in jobs :
        /\ job.state = "failed"
        /\ job.sends = job.opts.attempts
        /\ job.attemptsMade = job.opts.attempts
        /\ job.delay = BackoffDelay(job.opts, job.opts.attempts - 1)
        /\ getQueueStatus(jobs).failed >= 1

JobIds == 1..MaxTestMails
StalledId(id) == \E job \in jobs : job.id = id /\ Stalled(job)
Settled == \A job \in jobs : job.state = "failed"

C14_Returned ==
    \A p \in IssueCalls :
        issue[p].jobId # 0 => issue[p].pc = "done" /\ issue[p].result = Ok
C14_ResultStable ==
    \A p \in IssueCalls : issue[p].result # "pending" => issue'[p] = issue[p]
C14_ResultDecidedAtEnqueue == []C14_Returned /\ [][C14_ResultStable]_vars

C14_Witness ==
    \E p \in IssueCalls : \E job \in jobs :
        /\ job.id = issue[p].jobId
        /\ job.state = "failed"
        /\ job.attemptsMade = job.opts.attempts
        /\ issue[p].result = Ok

\* C15: a job whose delivery call returned success is removed from the
\* queue at once: no job record in state completed is ever retained, the
\* completed count of the status query is 0 in every reachable state.
C15_CompletedSetEmpty ==
    /\ \A job \in jobs : job.state # "completed"
    /\ getQueueStatus(jobs).completed = 0

\* A job was delivered (it left the queue) after a retry of another one.
C15_Witness ==
    /\ \E id \in 1..(nextJobId - 1) : \A job \in jobs : job.id # id
    /\ \E job \in jobs : job.state = "delayed"

\* C16: requestPasswordReset for a user id without a row fails with
\* NotFoundException; it creates no token row, invalidates no token and
\* enqueues no job.
C16_Rejected ==
    \A p \in IssueCalls :
        (issue[p].pc # "idle" /\ issue[p].userId \notin Users) =>
            /\ issue[p].pc = "done"
            /\ issue[p].result = NotFoundException
            /\ issue[p].tokenId = 0
            /\ issue[p].invalidated = {}
            /\ issue[p].jobId = 0
C16_NothingWritten ==
    \A p \in IssueCalls :
        (issue[p].pc = "idle" /\ issue'[p].pc # "idle"
            /\ issue'[p].userId \notin Users) =>
            /\ tokens' = tokens
            /\ users' = users
            /\ jobs' = jobs /\ nextJobId' = nextJobId
C16_UnknownOwner == []C16_Rejected /\ [][C16_NothingWritten]_vars

C16_Witness ==
    \E p \in IssueCalls :
        /\ issue[p].userId \notin Users
        /\ issue[p].result = NotFoundException
        /\ \E i \in TokenIds : tokens[i].usedAt = NULL
        /\ jobs # {}

\* C17: validateResetToken changes no state, and it returns true exactly
\* when a resetPassword call with the same token in the same state passes
\* its lookup (matching hash, usedAt = null, expiresAt > now).
C17_SameAsLookup ==
    \A token \in Secrets :
        validateResetToken(tokens, token, now)
            <=> (FindValidToken(tokens, hashToken(token), now) # {})
C17_ValidateStep ==
    validation' # validation =>
        /\ UNCHANGED <<now, ticks, users, tokens, issue, consume, jobs,
                       nextJobId, worker, testMails, apiKey>>
        /\ validation'.result
              <=> (FindValidToken(tokens, hashToken(validation'.token), now) # {})
C17_ConsumeStep ==
    \A c \in ConsumeCalls :
        LookupStep(c) =>
            (PassedLookup(c)' <=> validateResetToken(tokens, consume'[c].token, now))
C17_ValidateReadsOnly ==
    []C17_SameAsLookup /\ [][C17_ValidateStep /\ C17_ConsumeStep]_vars

\* A token validated as good that a later resetPassword call rejected.
C17_Witness ==
    /\ validation.result
    /\ \E c \in ConsumeCalls :
          /\ consume[c].token = validation.token
          /\ consume[c].result = BadRequestException

\* The text in which every placeholder of the mapping stands replaced by its
\* value and every other placeholder is removed.
ValueOf(params, key) ==
    LET hits == {i \in 1..Len(params) : params[i].key = key}
    IN IF hits = {} THEN <<>> ELSE params[CHOOSE i \in hits : TRUE].value
RECURSIVE Substituted(_, _)
Substituted(body, params) ==
    IF body = <<>> THEN <<>>
    ELSE (IF Head(body)[1] = "var" THEN ValueOf(params, Head(body)[2])
          ELSE <<Head(body)>>)
             \o Substituted(Tail(body), params)

\* C18: rendering replaces every {{key}} placeholder whose key is in the
\* parameter mapping by its value and removes every other placeholder;
\* "Hi {{firstName}}, code {{code}}" with {firstName: "Ana"} yields
\* "Hi Ana, code ".
C18_RenderSubstitutes ==
    render.pc = "done" =>
        render.htmlContent = Substituted(render.body, render.params)

\* A step of the queue or of a worker (not of a request).
QueueStep == worker' # worker \/ (jobs' # jobs /\ issue' = issue)

\* C19: processing a job (rendering, delivery, completion, retry, failure)
\* changes no token record and no answer of validateResetToken; the token
\* of a request stays valid, whatever became of its job, while it is not
\* used (consumed or invalidated by a later request) and not expired.
C19_TokensUntouched ==
    QueueStep =>
        /\ tokens' = tokens
        /\ users' = users
        /\ \A token \in Secrets :
              validateResetToken(tokens', token, now')
                  <=> validateResetToken(tokens, token, now)
C19_StillValid ==
    \A p \in IssueCalls :
        (/\ issue[p].result = Ok
         /\ tokens[issue[p].tokenId].usedAt = NULL
         /\ now < tokens[issue[p].tokenId].expiresAt)
            => validateResetToken(tokens, issue[p].plainToken, now)
C19_JobsLeaveTokensAlone == []C19_StillValid /\ [][C19_TokensUntouched]_vars

\* The mail of a request was delivered and removed, another request's job
\* failed for good; the first token still validates.
C19_Witness ==
    \E p, q \in IssueCalls :
        /\ issue[p].jobId # 0
        /\ \A job \in jobs : job.id # issue[p].jobId
        /\ validateResetToken(tokens, issue[p].plainToken, now)
        /\ \E job \in jobs : job.id = issue[q].jobId /\ job.state = "failed"

\* C20: in requestPasswordReset, invalidating the owner's unconsumed tokens
\* and saving the new token are one atomic step: in no state, and in
\* particular not after a failed save, are the tokens the request found
\* unconsumed marked used while its new token is not stored.
C20_InvalidateAndSaveAtomic ==
    \A p \in IssueCalls :
        issue[p].tokenId = 0 =>
            \A i \in issue[p].invalidated : tokens[i].usedAt = NULL

\* C21: when resetPassword returns success, the owner of the consumed token
\* has no valid token left (the consumed row and every other row of the
\* owner have usedAt set), and the step that ends the call leaves the rows
\* of every other owner as they were.
C21_Returns(c) == consume[c].pc # "done" /\ consume'[c].result = Ok
C21_OwnerHasNoValidToken ==
    [][\A c \in ConsumeCalls :
          C21_Returns(c) =>
              LET owner == tokens[consume[c].resetTokenId].userId
              IN /\ Len(tokens') = Len(tokens)
                 /\ tokens'[consume[c].resetTokenId].usedAt # NULL
                 /\ \A i \in 1..Len(tokens') :
                       IF tokens'[i].userId = owner
                       THEN tokens'[i].usedAt # NULL
                       ELSE tokens'[i] = tokens[i]
                 /\ \A token \in Secrets :
                       (\E i \in 1..Len(tokens') :
                           /\ tokens'[i].userId = owner
                           /\ tokens'[i].tokenHash = hashToken(token))
                          => ~validateResetToken(tokens', token, now')]_vars

\* A call returned success for an owner with two rows.
C21_Witness ==
    \E c \in ConsumeCalls : \E i, j \in TokenIds :
        /\ consume[c].result = Ok
        /\ i # j
        /\ tokens[i].userId = tokens[consume[c].resetTokenId].userId
        /\ tokens[j].userId = tokens[consume[c].resetTokenId].userId
        /\ tokens[i].usedAt # NULL
        /\ tokens[j].usedAt # NULL

\* C22: no job is silently dropped: a job leaves the queue only in the step
\* in which the delivery call made for it returns success, and a job that
\* ended otherwise is failed, has its last error recorded and is never
\* removed or changed.
C22_LeavesOnlyDelivered ==
    \A job \in jobs :
        /\ JobsById(jobs', job.id) = {} =>
              \E w \in Workers :
                  /\ worker[w].job = job.id
                  /\ worker[w].pc = "send"
                  /\ worker'[w].pc = "idle"
                  /\ apiKey # ""
                  /\ job.state = "active"
        /\ job.state = "failed" => job \in jobs'
C22_FailedHasError ==
    \A job \in jobs :
        /\ job.state = "failed" => job.failedReason # ""
        /\ job.state \in {"waiting", "active", "delayed", "failed"}
C22_NeverSilentlyDropped ==
    []C22_FailedHasError /\ [][C22_LeavesOnlyDelivered]_vars

\* One job was delivered and removed, another ended failed on a missing
\* template.
C22_Witness ==
    /\ \E id \in 1..(nextJobId - 1) : JobsById(jobs, id) = {}
    /\ \E job \in jobs :
          /\ job.state = "failed"
          /\ job.sends = 0
          /\ job.failedReason = "Email template not found"

\* C23: every job carries attempts = 5 and exponential backoff with base
\* delay 3 s, and the delay scheduled after the n-th failed attempt is
\* 3 s * 2^(n-1): 3, 6, 12, 24 s for n = 1..4 (in milliseconds).
C23_BackoffSchedule ==
    \A job \in jobs :
        /\ job.opts.attempts = 5
        /\ job.opts.backoff = [type |-> "exponential", delay |-> 3000]
        /\ job.state = "delayed" =>
              /\ job.attemptsMade \in 1..4
              /\ job.delay = 3000 * 2^(job.attemptsMade - 1)
              /\ job.delay = <<3000, 6000, 12000, 24000>>[job.attemptsMade]

C23_Witness ==
    \E job \in jobs :
        /\ job.state = "delayed"
        /\ job.attemptsMade = 4
        /\ job.delay = 24000
        /\ job.data.template = "welcome"

\* C24: a job that waits for its backoff delay occupies no worker: no
\* worker holds a delayed job, and while a job is delayed every idle worker
\* can take any waiting job.
C24_DelayedJobHoldsNoWorker ==
    \A delayed \in jobs :
        delayed.state = "delayed" =>
            /\ \A w \in Workers : worker[w].job # delayed.id
            /\ \A job \in jobs : \A w \in Workers :
                  (job.state = "waiting" /\ worker[w].pc = "idle")
                      => ENABLED Worker_GetNextJob(w, job)

C24_Witness ==
    /\ \E job \in jobs : job.state = "delayed" /\ job.sends >= 1
    /\ \E job \in jobs : job.state = "waiting" /\ job.attemptsMade = 0
    /\ \A w \in Workers : worker[w].pc = "idle"

\* C25: every delivery failure (429, 401, 400, another status, a network
\* error or timeout, a missing API key) leads to the same transition of
\* the job: one more attempt made, delayed with the backoff while attempts
\* remain, failed only when the attempts are used up.
C25_FailedDelivery(w) ==
    /\ worker[w].pc = "send"
    /\ worker'[w].pc = "idle"
    /\ JobsById(jobs', worker[w].job) # {}
    /\ jobs' # jobs
C25_SameTransitionForEveryFailure ==
    [][\A w \in Workers :
          C25_FailedDelivery(w) =>
              \A job \in JobsById(jobs, worker[w].job) :
              \A next \in JobsById(jobs', worker[w].job) :
                  /\ next.failedReason
                        \in DeliveryErrors \cup {"Email service is not configured"}
                  /\ next.attemptsMade = job.attemptsMade + 1
                  /\ next.state = IF next.attemptsMade < job.opts.attempts
                                  THEN "delayed" ELSE "failed"
                  /\ next.state = "delayed"
                        => next.delay = BackoffDelay(job.opts, next.attemptsMade)]_vars

\* A job answered 401 and a job answered 400 both wait for their retry.
C25_Witness ==
    /\ \E job \in jobs :
          job.state = "delayed" /\ job.failedReason = handleBrevoError("401")
    /\ \E job \in jobs :
          job.state = "delayed" /\ job.failedReason = handleBrevoError("400")

\* C26: token rows are created only by requestPasswordReset, with
\* usedAt = null and expiresAt = time of issue + 15 minutes; no step of
\* issue, consume or validate deletes a row or changes its tokenHash, owner
\* or expiresAt: the rows only grow in number and only usedAt is modified.
C26_Step ==
    /\ Len(tokens') >= Len(tokens)
    /\ \A i \in 1..Len(tokens) :
          tokens'[i] = [tokens[i] EXCEPT !.usedAt = tokens'[i].usedAt]
    /\ Len(tokens') > Len(tokens) =>
          /\ Len(tokens') = Len(tokens) + 1
          /\ tokens'[Len(tokens')].usedAt = NULL
          /\ tokens'[Len(tokens')].expiresAt = now + 15
          /\ \E p \in IssueCalls :
                /\ issue[p].pc = "save"
                /\ issue'[p].tokenId = Len(tokens')
                /\ tokens'[Len(tokens')].userId = issue[p].userId
    /\ validation' # validation => tokens' = tokens
C26_TokenRowsOnlyGrow == [][C26_Step]_vars

\* Two rows, one issued later than the other, one consumed, one validated.
C26_Witness ==
    /\ Len(tokens) = NumIssueCalls
    /\ \E i, j \in TokenIds : tokens[i].createdAt < tokens[j].createdAt
    /\ \E c \in ConsumeCalls : consume[c].result = Ok
    /\ validation # NoValidation

\* C27: usedAt is written at most once per token row: once it is not null,
\* no step of an issue or consume call gives it another value or resets it.
C27_UsedAtWrittenOnce ==
    [][\A i \in 1..Len(tokens) :
          tokens[i].usedAt # NULL => tokens'[i].usedAt = tokens[i].usedAt]_vars

CarriesSecret(job, token) ==
    \E link \in ResetLinkOf(job) : Contains(link, token)

\* C28: every requestPasswordReset that returned success enqueued exactly
\* one job, after its token row was saved, and the resetLink of that job
\* carries the secret whose hash is in that row; a request that failed with
\* NotFoundException enqueued none.
C28_OneJobPerIssue ==
    /\ \A p \in IssueCalls :
          /\ issue[p].result = Ok =>
                /\ Cardinality(JobsById(jobs, issue[p].jobId)) = 1
                /\ Cardinality({job \in jobs :
                                   CarriesSecret(job, issue[p].plainToken)}) = 1
                /\ \A job \in JobsById(jobs, issue[p].jobId) :
                      /\ CarriesSecret(job, issue[p].plainToken)
                      /\ job.data.template = "reset-password"
                      /\ job.data.to = users[issue[p].userId].email
                /\ issue[p].tokenId \in TokenIds
                /\ tokens[issue[p].tokenId].tokenHash = hashToken(issue[p].plainToken)
                /\ tokens[issue[p].tokenId].userId = issue[p].userId
          /\ issue[p].result # Ok => issue[p].jobId = 0
    /\ Cardinality(jobs) = Cardinality({p \in IssueCalls : issue[p].result = Ok})
    /\ \A job \in jobs : \E p \in IssueCalls :
          issue[p].jobId = job.id /\ issue[p].tokenId \in TokenIds

C28_Witness ==
    /\ \E p \in IssueCalls : issue[p].result = Ok
    /\ \E p \in IssueCalls : issue[p].result = NotFoundException
    /\ Cardinality(jobs) = 1

\* C29: when mailQueue.add rejects, requestPasswordReset fails with that
\* error and nothing is rolled back: the failing step changes no token row,
\* the new row stays stored (and valid, as far as no other call used it
\* and it has not expired), the tokens the request invalidated stay used.
C29_Failed(p) == issue[p].result = QueueError
C29_EffectsKept ==
    \A p \in IssueCalls :
        C29_Failed(p) =>
            /\ issue[p].pc = "done"
            /\ issue[p].jobId = 0
            /\ issue[p].tokenId \in TokenIds
            /\ tokens[issue[p].tokenId].tokenHash = hashToken(issue[p].plainToken)
            /\ (tokens[issue[p].tokenId].usedAt = NULL
                   /\ now < tokens[issue[p].tokenId].expiresAt)
                  => validateResetToken(tokens, issue[p].plainToken, now)
            /\ \A i \in issue[p].invalidated : tokens[i].usedAt # NULL
C29_FailingStep ==
    \A p \in IssueCalls :
        (~C29_Failed(p) /\ C29_Failed(p)') =>
            /\ tokens' = tokens
            /\ users' = users
            /\ jobs' = jobs
C29_EnqueueFailureKeepsToken == []C29_EffectsKept /\ [][C29_FailingStep]_vars

\* The request failed on the queue after it had invalidated an earlier
\* token; its own token validates.
C29_Witness ==
    \E p \in IssueCalls :
        /\ C29_Failed(p)
        /\ issue[p].invalidated # {}
        /\ validateResetToken(tokens, issue[p].plainToken, now)

\* C30: the five counts of one getQueueStatus call describe one state of
\* the queue: every job that was in the queue from the beginning to the end
\* of the call is counted in exactly one of the five states.
C30_EachJobCountedOnce ==
    status.pc = "done" =>
        \A id \in status.present :
            JobsById(jobs, id) # {} => status.counted[id] = 1
====
